---- MODULE Spec2Model ----
(***************************************************************************)
(* Model of the remote process lifecycle subsystem and of the instance     *)
(* readiness poller of server.py.                                          *)
(*                                                                         *)
(*   wait_for_instance_ready      the readiness poller (SpecPoll)          *)
(*   ssh_execute_background_command / ssh_check_background_task /          *)
(*   ssh_kill_background_task     launch, status, terminate (Spec)         *)
(*   the SSH skeleton of these three and of _execute_ssh_command: key      *)
(*   loading, session, round trips, module-level state (SpecSsh)           *)
(*   task ids and artifact paths of overlapping launches (SpecTask)        *)
(*   launch, terminate, and terminate called again on the handle it has    *)
(*   just reported killed (SpecAgain)                                      *)
(*                                                                         *)
(* The remote host is modelled by its process table and by the two         *)
(* artifact files of every task.  Every remote round trip of an operation  *)
(* is one step, so that the host can change between two round trips.       *)
(***************************************************************************)
EXTENDS Integers, Sequences, FiniteSets, TLC

(***************************************************************************)
(* Bounds of the exploration.                                              *)
(***************************************************************************)
MaxTimeout == 11      \* largest timeout_seconds handed to wait_ready
MaxQueryTime == 1     \* longest time one status query takes, in seconds
MaxPid == 2           \* size of the remote process id space
MaxTask == 1          \* number of task ids
MaxLaunch == 2        \* number of launch calls that may overlap
MaxUuid == 2          \* number of values the uuid prefix can take

(***************************************************************************)
(* Program constants.                                                      *)
(***************************************************************************)
SleepInterval == 5    \* time.sleep(5) between two polls

VARIABLES
    \* ---- wait_for_instance_ready ----
    wpc,          \* position: "idle", "loop", "query", "sleep", "done"
    wTimeout,     \* timeout_seconds
    wElapsed,     \* time.time() - start_time
    wCaught,      \* TRUE while the sleep to perform is the except branch's
    wResponses,   \* what each status query answered, in order
    wSleeps,      \* number of time.sleep(5) performed
    wResult,      \* "none", "ready", "failed_terminal", "timed_out", "exception"
    wRawStatus,   \* status carried by the failed_terminal report
    wReadyAt,     \* elapsed time carried by the ready report
    \* ---- the remote host ----
    ptable,       \* process table: what runs under each process id
    pidFile,      \* per task_id: content of /tmp/ssh_task_{task_id}.pid, 0 = no file
    logFile,      \* per task_id: /tmp/ssh_task_{task_id}.log exists
    orphan,       \* per task_id: its user command runs without its wrapper
    \* ---- the operation in progress ----
    op,           \* "none", "launch", "status", "terminate"
    pc,           \* position inside the operation
    aTask,        \* task_id (argument, or the one launch generated)
    aPid,         \* process_id argument
    out,          \* stdout of the last remote command
    result,       \* what the last operation returned
    \* ---- history ----
    usedIds,      \* task ids generated so far
    handle,       \* the handle launch returned, while only status calls on it followed
    sigs,         \* signals the current terminate has sent, in order
    graces,       \* grace periods the current terminate has waited
    saw,          \* what the process id held at the first probe
    resaw,        \* what the process id held at the re-probe
    prev          \* the handle the terminate just before this one killed

pollVars == <<wpc, wTimeout, wElapsed, wCaught, wResponses, wSleeps, wResult,
              wRawStatus, wReadyAt>>

hostVars == <<ptable, pidFile, logFile, orphan>>

callVars == <<op, pc, aTask, aPid, out, result>>

histVars == <<usedIds, handle, sigs, graces, saw, resaw>>

lifeVars == <<hostVars, callVars, histVars, prev>>

VARIABLES
    \* ---- one SSH operation seen from the client side ----
    sOp,          \* "none", "run", "launch", "status", "terminate"
    spc,          \* "idle", "exists", "key", "connect", "exec", "read", "done"
    keyFile,      \* the file at SSH_KEY_FILE: whether it exists, what each parser does
    keyChecked,   \* what os.path.exists answered: "unchecked", "present", "missing"
    tried,        \* the key parsers attempted so far, each with its outcome
    privateKey,   \* algorithm of the loaded private_key, "none" before
    session,      \* client: "none", "created", "open", "closed"
    opened,       \* client.connect has succeeded in this operation
    rounds,       \* remote commands still to execute
    remote,       \* command in flight: "idle", "running", "answered", "stalled", "lost"
    sResult,      \* "none", "returned", "key_not_found", "passphrase", "load_error", "raised"
    \* ---- the server process that serves the operation ----
    vastClient,   \* the module-level _vast_client is set
    launchedHere  \* this process has served a launch

procVars == <<vastClient, launchedHere>>

sshVars == <<sOp, spc, keyFile, keyChecked, tried, privateKey, session, opened,
             rounds, remote, sResult, procVars>>

VARIABLES
    \* ---- task ids, artifact paths, process-local state ----
    calls,        \* per launch call: position, task_name, uuid prefix
    rfiles,       \* remote files under /tmp: path and the launch that wrote it
    look          \* the status or terminate call in progress

taskVars == <<calls, rfiles, look>>

vars == <<pollVars, lifeVars, sshVars, taskVars>>

(***************************************************************************)
(* wait_for_instance_ready                                                 *)
(***************************************************************************)
\* What one status query can produce: an actual_status string, a response
\* without the actual_status key ("missing"), or an exception ("error").
Responses == {"running", "failed", "exited", "loading", "missing", "error"}

\* instance.get("actual_status", "unknown")
ActualStatus(resp) == IF resp = "missing" THEN "unknown" ELSE resp

\* a loop condition written with <= instead of <
ExpiredLate(elapsed, timeout) == ~(elapsed <= timeout)

\* a loop that allows itself one more interval after the deadline
ExpiredOneIntervalLate(elapsed, timeout) == ~(elapsed < timeout + SleepInterval)

\* the negation of the loop condition time.time() - start_time < timeout
Expired(elapsed, timeout) == ~(elapsed < timeout)

\* a readiness test that also accepts the "loading" status
IsReadyLoose(status) == status \in {"running", "loading"}

\* status == "running"
IsReady(status) == status = "running"

\* a terminal test that forgets "exited"
IsTerminalFailedOnly(status) == status = "failed"

\* status in ["failed", "exited"]
IsTerminal(status) == status \in {"failed", "exited"}

wQueries == Len(wResponses)

InitWait ==
    /\ wpc = "idle"
    /\ wTimeout = 0
    /\ wElapsed = 0
    /\ wCaught = FALSE
    /\ wResponses = <<>>
    /\ wSleeps = 0
    /\ wResult = "none"
    /\ wRawStatus = "none"
    /\ wReadyAt = 0

\* the call: start_time = time.time()
WaitStart(t) ==
    /\ wpc = "idle"
    /\ wpc' = "loop"
    /\ wTimeout' = t
    /\ wElapsed' = 0
    /\ UNCHANGED <<wCaught, wResponses, wSleeps, wResult, wRawStatus, wReadyAt>>
    /\ UNCHANGED <<lifeVars, sshVars, taskVars>>

\* the while condition holds: enter the loop body
WaitEnter ==
    /\ wpc = "loop"
    /\ ~Expired(wElapsed, wTimeout)
    /\ wpc' = "query"
    /\ UNCHANGED <<wTimeout, wElapsed, wCaught, wResponses, wSleeps, wResult,
                   wRawStatus, wReadyAt>>
    /\ UNCHANGED <<lifeVars, sshVars, taskVars>>

\* the while condition fails: return the timeout report
WaitTimeout ==
    /\ wpc = "loop"
    /\ Expired(wElapsed, wTimeout)
    /\ wpc' = "done"
    /\ wResult' = "timed_out"
    /\ UNCHANGED <<wTimeout, wElapsed, wCaught, wResponses, wSleeps,
                   wRawStatus, wReadyAt>>
    /\ UNCHANGED <<lifeVars, sshVars, taskVars>>

\* one status query that answers with a status (or without the key); it
\* takes d seconds
WaitQuery(resp, d) ==
    /\ wpc = "query"
    /\ resp # "error"
    /\ wResponses' = Append(wResponses, resp)
    /\ wElapsed' = wElapsed + d
    /\ LET status == ActualStatus(resp) IN
       IF IsReady(status)
       THEN /\ wpc' = "done"
            /\ wResult' = "ready"
            /\ wReadyAt' = wElapsed + d
            /\ UNCHANGED <<wRawStatus, wCaught>>
       ELSE IF IsTerminal(status)
       THEN /\ wpc' = "done"
            /\ wResult' = "failed_terminal"
            /\ wRawStatus' = status
            /\ UNCHANGED <<wReadyAt, wCaught>>
       ELSE /\ wpc' = "sleep"
            /\ wCaught' = FALSE
            /\ UNCHANGED <<wResult, wRawStatus, wReadyAt>>
    /\ UNCHANGED <<wTimeout, wSleeps>>
    /\ UNCHANGED <<lifeVars, sshVars, taskVars>>

\* a status query whose exception is not caught and leaves the call
WaitQueryErrorEscapes(d) ==
    /\ wpc = "query"
    /\ wResponses' = Append(wResponses, "error")
    /\ wElapsed' = wElapsed + d
    /\ wpc' = "done"
    /\ wResult' = "exception"
    /\ UNCHANGED <<wTimeout, wSleeps, wCaught, wRawStatus, wReadyAt>>
    /\ UNCHANGED <<lifeVars, sshVars, taskVars>>

\* a status query whose exception is caught but followed by no sleep
WaitQueryErrorNoSleep(d) ==
    /\ wpc = "query"
    /\ wResponses' = Append(wResponses, "error")
    /\ wElapsed' = wElapsed + d
    /\ wpc' = "loop"
    /\ UNCHANGED <<wTimeout, wSleeps, wCaught, wResult, wRawStatus, wReadyAt>>
    /\ UNCHANGED <<lifeVars, sshVars, taskVars>>

\* one status query that raises: the except branch logs and goes to sleep
WaitQueryError(d) ==
    /\ wpc = "query"
    /\ wResponses' = Append(wResponses, "error")
    /\ wElapsed' = wElapsed + d
    /\ wpc' = "sleep"
    /\ wCaught' = TRUE
    /\ UNCHANGED <<wTimeout, wSleeps, wResult, wRawStatus, wReadyAt>>
    /\ UNCHANGED <<lifeVars, sshVars, taskVars>>

\* time.sleep(5), of the try body or of the except branch
WaitSleep ==
    /\ wpc = "sleep"
    /\ wElapsed' = wElapsed + SleepInterval
    /\ wSleeps' = wSleeps + 1
    /\ wpc' = "loop"
    /\ wCaught' = FALSE
    /\ UNCHANGED <<wTimeout, wResponses, wResult, wRawStatus, wReadyAt>>
    /\ UNCHANGED <<lifeVars, sshVars, taskVars>>

WaitNext ==
    \/ \E t \in 0..MaxTimeout : WaitStart(t)
    \/ WaitEnter
    \/ WaitTimeout
    \/ \E r \in Responses \ {"error"}, d \in 0..MaxQueryTime : WaitQuery(r, d)
    \/ \E d \in 0..MaxQueryTime : WaitQueryError(d)
    \/ WaitSleep

(***************************************************************************)
(* The remote host                                                         *)
(***************************************************************************)
Pids == 1..MaxPid

TaskIds == 1..MaxTask

\* A slot of the process table.  kind "wrapper" is the bash -c process that
\* launch starts: it writes its id to the pid file (stage "forked" ->
\* "pidwritten"), then runs the user command as its child (stage
\* "running").  kind "other" is any other process of the connecting user.
FreeSlot == [kind |-> "free", task |-> 0, stage |-> "none"]

OtherProc == [kind |-> "other", task |-> 0, stage |-> "none"]

Wrapper(t) == [kind |-> "wrapper", task |-> t, stage |-> "forked"]

\* kill -0 pid succeeds: a process of the connecting user holds the id
Alive(pt, p) == pt[p].kind # "free"

\* the process under p dies of signal sig: of SIGKILL always, of SIGTERM
\* unless it is a wrapper whose script ignores that signal at the moment
\* (ign); a signal to a free id has no effect
Dies(pt, p, sig, ign) ==
    Alive(pt, p) /\ (sig = "KILL" \/ ~(ign /\ pt[p].kind = "wrapper"))

\* a signal that has no effect on the process it reaches
DeliverSpares(pt, p, sig, ign) == pt

\* process table after kill -sig p
Deliver(pt, p, sig, ign) ==
    IF Dies(pt, p, sig, ign) THEN [pt EXCEPT ![p] = FreeSlot] ELSE pt

\* a wrapper killed while its command runs leaves the command running
Orphaned(pt, p, sig, ign, orph) ==
    IF Dies(pt, p, sig, ign) /\ pt[p].kind = "wrapper" /\ pt[p].stage = "running"
    THEN [orph EXCEPT ![pt[p].task] = TRUE]
    ELSE orph

\* what a probe or a signal met under process id p: nothing ("free"), the
\* wrapper of a task, or another process
Seen(pt, p) == [kind |-> pt[p].kind, task |-> pt[p].task]

NotSeen == [kind |-> "none", task |-> 0]

\* the record of one signal sent by terminate to its process_id
Sent(pt, p, sig, ign) ==
    [sig |-> sig, kind |-> pt[p].kind, task |-> pt[p].task,
     ignored |-> Alive(pt, p) /\ ~Dies(pt, p, sig, ign)]

NoHandle == [task |-> 0, pid |-> 0]

NoResult ==
    [kind |-> "none", task |-> 0, pid |-> 0, state |-> "", outcome |-> "",
     tail |-> "", lines |-> "", cleanup |-> "", removed |-> FALSE,
     logGone |-> FALSE, pidGone |-> FALSE, onRecord |-> FALSE,
     ran |-> FALSE, stderr |-> FALSE, exit |-> 0]

ErrorResult == [NoResult EXCEPT !.kind = "error"]

\* which of the call's identifiers the text of a result of each kind names:
\* the launch and status reports print Task ID, Process ID and Host:
\* host:port, the terminate report prints Task ID and Process ID, and a
\* failure text is a fixed prefix followed by the remote stderr, the remote
\* stdout or the text of the exception
ReportFields(kind) ==
    CASE kind = "handle" -> {"task", "pid", "host", "port"}
      [] kind = "status" -> {"task", "pid", "host", "port"}
      [] kind = "report" -> {"task", "pid"}
      [] OTHER -> {}

\* positions at which the operation does not touch the remote host: it
\* opens the connection, stands between the kill script's sleep and its
\* re-probe, or computes locally on what it has read.  The host is not
\* observed there, so its steps are taken at the positions before and after.
LocalSteps == {"connect", "reprobe", "readkill", "parse", "return", "done"}

InitLife ==
    /\ ptable = [p \in Pids |-> FreeSlot]
    /\ pidFile = [t \in TaskIds |-> 0]
    /\ logFile = [t \in TaskIds |-> FALSE]
    /\ orphan = [t \in TaskIds |-> FALSE]
    /\ op = "none"
    /\ pc = "idle"
    /\ aTask = 0
    /\ aPid = 0
    /\ out = ""
    /\ result = NoResult
    /\ usedIds = {}
    /\ handle = NoHandle
    /\ prev = NoHandle
    /\ sigs = <<>>
    /\ graces = 0
    /\ saw = NotSeen
    /\ resaw = NotSeen

\* -------- what the host does by itself --------

\* a wrapper that records a process id other than its own
WrapperWritesOtherPid(p) ==
    /\ pc \notin LocalSteps
    /\ ptable[p].kind = "wrapper"
    /\ ptable[p].stage = "forked"
    /\ ptable' = [ptable EXCEPT ![p].stage = "pidwritten"]
    /\ pidFile' = [pidFile EXCEPT ![ptable[p].task] = IF p = 1 THEN 2 ELSE 1]
    /\ UNCHANGED <<logFile, orphan, callVars, histVars>>
    /\ UNCHANGED <<prev, pollVars, sshVars, taskVars>>

\* the wrapper runs: echo $$ > pid_file
WrapperWritePid(p) ==
    /\ pc \notin LocalSteps
    /\ ptable[p].kind = "wrapper"
    /\ ptable[p].stage = "forked"
    /\ ptable' = [ptable EXCEPT ![p].stage = "pidwritten"]
    /\ pidFile' = [pidFile EXCEPT ![ptable[p].task] = p]
    /\ UNCHANGED <<logFile, orphan, callVars, histVars>>
    /\ UNCHANGED <<prev, pollVars, sshVars, taskVars>>

\* echo $$ > pid_file fails (the path cannot be written, or the disk is
\* full): bash reports it and goes on to the next line, so the user command
\* starts with nothing written
WrapperWriteFails(p) ==
    /\ pc \notin LocalSteps
    /\ ptable[p].kind = "wrapper"
    /\ ptable[p].stage = "forked"
    /\ ptable' = [ptable EXCEPT ![p].stage = "running"]
    /\ UNCHANGED <<pidFile, logFile, orphan, callVars, histVars>>
    /\ UNCHANGED <<prev, pollVars, sshVars, taskVars>>

\* the wrapper starts the user command
WrapperRunCommand(p) ==
    /\ pc \notin LocalSteps
    /\ ptable[p].kind = "wrapper"
    /\ ptable[p].stage = "pidwritten"
    /\ ptable' = [ptable EXCEPT ![p].stage = "running"]
    /\ UNCHANGED <<pidFile, logFile, orphan, callVars, histVars>>
    /\ UNCHANGED <<prev, pollVars, sshVars, taskVars>>

\* the user command finishes and its wrapper with it, or another process
\* of the user ends
ProcExit(p) ==
    /\ pc \notin LocalSteps
    /\ \/ ptable[p].kind = "wrapper" /\ ptable[p].stage = "running"
       \/ ptable[p].kind = "other"
    /\ ptable' = [ptable EXCEPT ![p] = FreeSlot]
    /\ UNCHANGED <<pidFile, logFile, orphan, callVars, histVars>>
    /\ UNCHANGED <<prev, pollVars, sshVars, taskVars>>

\* a user command that lost its wrapper finishes
OrphanExit(t) ==
    /\ pc \notin LocalSteps
    /\ orphan[t]
    /\ orphan' = [orphan EXCEPT ![t] = FALSE]
    /\ UNCHANGED <<ptable, pidFile, logFile, callVars, histVars>>
    /\ UNCHANGED <<prev, pollVars, sshVars, taskVars>>

\* the operating system hands a free process id to a new process
PidReuse(p) ==
    /\ pc \notin LocalSteps
    /\ ptable[p].kind = "free"
    /\ ptable' = [ptable EXCEPT ![p] = OtherProc]
    /\ UNCHANGED <<pidFile, logFile, orphan, callVars, histVars>>
    /\ UNCHANGED <<prev, pollVars, sshVars, taskVars>>

HostNext ==
    \/ \E p \in Pids : WrapperWritePid(p)
    \/ \E p \in Pids : WrapperWriteFails(p)
    \/ \E p \in Pids : WrapperRunCommand(p)
    \/ \E p \in Pids : ProcExit(p)
    \/ \E t \in TaskIds : OrphanExit(t)
    \/ \E p \in Pids : PidReuse(p)

\* -------- what the three operations share --------

\* str(uuid.uuid4())[:8], with the optional task_name in front: an
\* identifier no earlier launch has produced.  Identifiers are only ever
\* compared for equality, so the least unused one stands for whichever the
\* draw produces.
NewTaskIds(used) == {t \in TaskIds \ used : \A u \in TaskIds \ used : t <= u}

\* int(stdout_output): the process id printed, 0 for a ValueError
ParseInt(str) ==
    IF \E p \in Pids : ToString(p) = str
    THEN CHOOSE p \in Pids : ToString(p) = str
    ELSE 0

\* position after client.connect() has succeeded
FirstStep(o) == IF o = "launch" THEN "spawn" ELSE "probe"

\* client.connect(..., timeout=30) succeeds
Connect ==
    /\ pc = "connect"
    /\ pc' = FirstStep(op)
    /\ UNCHANGED <<hostVars, op, aTask, aPid, out, result, histVars>>
    /\ UNCHANGED <<prev, pollVars, sshVars, taskVars>>

\* client.connect() or a remote round trip raises: the except branch
\* returns the error text, the finally branch closes the client
Raise ==
    /\ pc \in {"connect", "spawn", "probe", "tail", "count", "kill",
               "readkill", "cleanup"}
    /\ pc' = "done"
    /\ UNCHANGED op
    /\ result' = [ErrorResult EXCEPT !.task = aTask, !.pid = aPid]
    /\ UNCHANGED <<hostVars, aTask, aPid, out, histVars>>
    /\ UNCHANGED <<prev, pollVars, sshVars, taskVars>>

\* the return statement hands the result to the caller; the next call starts
\* from a fresh frame
Return ==
    /\ pc = "done"
    /\ op' = "none"
    /\ pc' = "idle"
    /\ aTask' = 0
    /\ aPid' = 0
    /\ out' = ""
    /\ result' = NoResult
    /\ sigs' = <<>>
    /\ graces' = 0
    /\ saw' = NotSeen
    /\ resaw' = NotSeen
    /\ prev' = NoHandle
    /\ UNCHANGED <<hostVars, usedIds, handle>>
    /\ UNCHANGED <<pollVars, sshVars, taskVars>>

\* the handle whose process the returning call reports to have killed
Killed ==
    IF /\ op = "terminate"
       /\ result.kind = "report"
       /\ result.outcome \in {"TERMINATED", "FORCE_KILLED"}
    THEN [task |-> aTask, pid |-> aPid]
    ELSE NoHandle

\* -------- launch: ssh_execute_background_command --------

LaunchStart(t) ==
    /\ op = "none"
    /\ t \in NewTaskIds(usedIds)
    /\ op' = "launch"
    /\ pc' = "connect"
    /\ aTask' = t
    /\ aPid' = 0
    /\ out' = ""
    /\ result' = NoResult
    /\ usedIds' = usedIds \cup {t}
    /\ handle' = NoHandle
    /\ UNCHANGED <<hostVars, sigs, graces, saw, resaw>>
    /\ UNCHANGED <<prev, pollVars, sshVars, taskVars>>

\* exec_command(bg_command): the remote shell creates the log file and
\* starts the wrapper in the background, then sleeps 0.1
LaunchSpawn(p) ==
    /\ op = "launch"
    /\ pc = "spawn"
    /\ ptable[p].kind = "free"
    /\ ptable' = [ptable EXCEPT ![p] = Wrapper(aTask)]
    /\ logFile' = [logFile EXCEPT ![aTask] = TRUE]
    /\ pc' = "settle"
    /\ UNCHANGED <<pidFile, orphan, op, aTask, aPid, out, result, histVars>>
    /\ UNCHANGED <<prev, pollVars, sshVars, taskVars>>

\* the remote shell cannot fork: it writes to stderr, and launch returns
\* "Error starting background task"
LaunchSpawnFails ==
    /\ op = "launch"
    /\ pc = "spawn"
    /\ \A p \in Pids : ptable[p].kind # "free"
    /\ pc' = "done"
    /\ UNCHANGED op
    /\ out' = "Failed to start background task"
    /\ result' = [ErrorResult EXCEPT !.task = aTask, !.ran = TRUE, !.stderr = TRUE]
    /\ UNCHANGED <<hostVars, aTask, aPid, histVars>>
    /\ UNCHANGED <<prev, pollVars, sshVars, taskVars>>

\* exit statuses of the launch snippet: 0, or the failure of its last command
ExitStatuses == {0, 1}

\* after sleep 0.1: if [ -f pid_file ]; then cat pid_file; else echo "Failed..."
\* The client reads stdout, stderr and the exit status: e says that the
\* remote shell wrote something to stderr, x is the exit status.
LaunchReadPid(e, x) ==
    /\ op = "launch"
    /\ pc = "settle"
    /\ out' = IF pidFile[aTask] # 0 THEN ToString(pidFile[aTask])
              ELSE "Failed to start background task"
    /\ result' = [result EXCEPT !.ran = TRUE, !.stderr = e, !.exit = x]
    /\ pc' = "parse"
    /\ UNCHANGED <<hostVars, op, aTask, aPid, histVars>>
    /\ UNCHANGED <<prev, pollVars, sshVars, taskVars>>

\* a launch that looks at the exit status only
SnippetFailedExitOnly(stderr, exit) == exit # 0

\* if stderr_output or exit_status != 0
SnippetFailed(stderr, exit) == stderr \/ exit # 0

\* "Error starting background task" when the snippet failed; otherwise
\* process_id = int(stdout_output) and the task information, or
\* "Failed to parse process ID"
LaunchReturn ==
    /\ op = "launch"
    /\ pc = "parse"
    /\ pc' = "done"
    /\ UNCHANGED op
    /\ IF SnippetFailed(result.stderr, result.exit)
       THEN /\ result' = [result EXCEPT !.kind = "error", !.task = aTask]
            /\ UNCHANGED handle
       ELSE IF ParseInt(out) # 0
       THEN /\ result' = [result EXCEPT !.kind = "handle", !.task = aTask,
                                        !.pid = ParseInt(out)]
            /\ handle' = [task |-> aTask, pid |-> ParseInt(out)]
       ELSE /\ result' = [result EXCEPT !.kind = "launch_failure", !.task = aTask]
            /\ UNCHANGED handle
    /\ UNCHANGED <<hostVars, aTask, aPid, out, usedIds, sigs, graces, saw, resaw>>
    /\ UNCHANGED <<prev, pollVars, sshVars, taskVars>>

\* -------- status: ssh_check_background_task --------

StatusStart(p, t) ==
    /\ op = "none"
    /\ op' = "status"
    /\ pc' = "connect"
    /\ aTask' = t
    /\ aPid' = p
    /\ out' = ""
    /\ result' = NoResult
    /\ handle' = IF handle = [task |-> t, pid |-> p] THEN handle ELSE NoHandle
    /\ UNCHANGED <<hostVars, usedIds, sigs, graces, saw, resaw>>
    /\ UNCHANGED <<prev, pollVars, sshVars, taskVars>>

\* a probe whose answer is not looked at
StatusWordAlwaysRunning(pt, p) == "RUNNING"

\* kill -0 pid 2>/dev/null && echo 'RUNNING' || echo 'STOPPED'
StatusWord(pt, p) == IF Alive(pt, p) THEN "RUNNING" ELSE "STOPPED"

\* a probe that sends the graceful signal instead of signal 0
StatusProbeKills ==
    /\ op = "status"
    /\ pc = "probe"
    /\ saw' = Seen(ptable, aPid)
    /\ result' = [result EXCEPT !.state = StatusWord(ptable, aPid)]
    /\ ptable' = Deliver(ptable, aPid, "TERM", FALSE)
    /\ pc' = "tail"
    /\ UNCHANGED <<pidFile, logFile, orphan, op, aTask, aPid, out, usedIds,
                   handle, sigs, graces, resaw>>
    /\ UNCHANGED <<prev, pollVars, sshVars, taskVars>>

\* first round trip: the liveness probe
StatusProbe ==
    /\ op = "status"
    /\ pc = "probe"
    /\ saw' = Seen(ptable, aPid)
    /\ result' = [result EXCEPT !.state = StatusWord(ptable, aPid)]
    /\ pc' = "tail"
    /\ UNCHANGED <<hostVars, op, aTask, aPid, out, usedIds, handle, sigs, graces,
                   resaw>>
    /\ UNCHANGED <<prev, pollVars, sshVars, taskVars>>

\* if [ -f log_file ]; then tail -n N log_file; else echo 'Log file not found'; fi
TailOutput(exists) == IF exists THEN "log" ELSE "Log file not found"

\* a line count that does not test for the file
CountOutputUntested(exists) == "n"

\* if [ -f log_file ]; then wc -l ...; else echo '0'; fi
CountOutput(exists) == IF exists THEN "n" ELSE "0"

\* second round trip: the log tail
StatusTail ==
    /\ op = "status"
    /\ pc = "tail"
    /\ result' = [result EXCEPT !.tail = TailOutput(logFile[aTask])]
    /\ pc' = "count"
    /\ UNCHANGED <<hostVars, op, aTask, aPid, out, histVars>>
    /\ UNCHANGED <<prev, pollVars, sshVars, taskVars>>

\* third round trip: the line count; then the status report is returned
StatusCount ==
    /\ op = "status"
    /\ pc = "count"
    /\ result' = [result EXCEPT !.kind = "status", !.task = aTask, !.pid = aPid,
                                !.lines = CountOutput(logFile[aTask])]
    /\ pc' = "done"
    /\ UNCHANGED <<hostVars, op, aTask, aPid, out, histVars>>
    /\ UNCHANGED <<prev, pollVars, sshVars, taskVars>>

\* -------- terminate: ssh_kill_background_task --------

TermStart(p, t) ==
    /\ op = "none"
    /\ op' = "terminate"
    /\ pc' = "connect"
    /\ aTask' = t
    /\ aPid' = p
    /\ out' = ""
    /\ result' = NoResult
    /\ sigs' = <<>>
    /\ graces' = 0
    /\ saw' = NotSeen
    /\ resaw' = NotSeen
    /\ handle' = NoHandle
    /\ UNCHANGED <<hostVars, usedIds>>
    /\ UNCHANGED <<prev, pollVars, sshVars, taskVars>>

\* the caller reads a report that says TERMINATED or FORCE_KILLED and calls
\* terminate again with the same task_id and process_id
TermStartAgain ==
    /\ pc = "done"
    /\ Killed # NoHandle
    /\ op' = "terminate"
    /\ pc' = "connect"
    /\ UNCHANGED <<aTask, aPid>>
    /\ out' = ""
    /\ result' = NoResult
    /\ sigs' = <<>>
    /\ graces' = 0
    /\ saw' = NotSeen
    /\ resaw' = NotSeen
    /\ handle' = NoHandle
    /\ prev' = Killed
    /\ UNCHANGED <<hostVars, usedIds>>
    /\ UNCHANGED <<pollVars, sshVars, taskVars>>

\* kill -0 pid 2>/dev/null && echo 'RUNNING' || echo 'NOT_RUNNING'
CheckWord(pt, p) == IF Alive(pt, p) THEN "RUNNING" ELSE "NOT_RUNNING"

\* a terminate that runs the kill script whatever the probe said
AfterProbeAlwaysKill(status) == "kill"

\* a terminate that cleans up only after the kill script
AfterProbeSkipsCleanup(status) == IF status = "NOT_RUNNING" THEN "return" ELSE "kill"

\* if status == "NOT_RUNNING": straight to the cleanup, else the kill script
AfterProbe(status) == IF status = "NOT_RUNNING" THEN "cleanup" ELSE "kill"

\* first round trip: the liveness probe
TermProbe ==
    /\ op = "terminate"
    /\ pc = "probe"
    /\ out' = CheckWord(ptable, aPid)
    /\ saw' = Seen(ptable, aPid)
    /\ pc' = AfterProbe(CheckWord(ptable, aPid))
    /\ result' = IF CheckWord(ptable, aPid) = "NOT_RUNNING"
                 THEN [result EXCEPT !.outcome = "ALREADY_STOPPED"]
                 ELSE result
    /\ UNCHANGED <<hostVars, op, aTask, aPid, usedIds, handle, sigs, graces, resaw>>
    /\ UNCHANGED <<prev, pollVars, sshVars, taskVars>>

\* exec_command(kill_cmd); the script's first line: kill pid.  ign: the
\* user's script ignores the graceful signal when it arrives.
KillTerm(ign) ==
    /\ op = "terminate"
    /\ pc = "kill"
    /\ ptable' = Deliver(ptable, aPid, "TERM", ign)
    /\ orphan' = Orphaned(ptable, aPid, "TERM", ign, orphan)
    /\ sigs' = Append(sigs, Sent(ptable, aPid, "TERM", ign))
    /\ pc' = "grace"
    /\ UNCHANGED <<pidFile, logFile, op, aTask, aPid, out, result, usedIds,
                   handle, graces, saw, resaw>>
    /\ UNCHANGED <<prev, pollVars, sshVars, taskVars>>

\* a kill script without the sleep between the two signals
KillGraceSkipped ==
    /\ op = "terminate"
    /\ pc = "grace"
    /\ pc' = "reprobe"
    /\ UNCHANGED <<hostVars, op, aTask, aPid, out, result, histVars>>
    /\ UNCHANGED <<prev, pollVars, sshVars, taskVars>>

\* the script's sleep 2
KillGrace ==
    /\ op = "terminate"
    /\ pc = "grace"
    /\ graces' = graces + 1
    /\ pc' = "reprobe"
    /\ UNCHANGED <<hostVars, op, aTask, aPid, out, result, usedIds, handle,
                   sigs, saw, resaw>>
    /\ UNCHANGED <<prev, pollVars, sshVars, taskVars>>

\* a kill script that sends the forceful signal whatever the re-probe says
AfterReprobeAlwaysForce(alive) == "force"

\* if kill -0 pid: the forceful signal comes next, else echo "TERMINATED"
AfterReprobe(alive) == IF alive THEN "force" ELSE "readkill"

\* the script's re-probe
KillReprobe ==
    /\ op = "terminate"
    /\ pc = "reprobe"
    /\ resaw' = Seen(ptable, aPid)
    /\ pc' = AfterReprobe(Alive(ptable, aPid))
    /\ out' = IF Alive(ptable, aPid) THEN out ELSE "TERMINATED"
    /\ UNCHANGED <<hostVars, op, aTask, aPid, result, usedIds, handle, sigs,
                   graces, saw>>
    /\ UNCHANGED <<prev, pollVars, sshVars, taskVars>>

\* kill -9 pid; echo "FORCE_KILLED"
KillForce ==
    /\ op = "terminate"
    /\ pc = "force"
    /\ ptable' = Deliver(ptable, aPid, "KILL", FALSE)
    /\ orphan' = Orphaned(ptable, aPid, "KILL", FALSE, orphan)
    /\ sigs' = Append(sigs, Sent(ptable, aPid, "KILL", FALSE))
    /\ out' = "FORCE_KILLED"
    /\ pc' = "readkill"
    /\ UNCHANGED <<pidFile, logFile, op, aTask, aPid, result, usedIds, handle,
                   graces, saw, resaw>>
    /\ UNCHANGED <<prev, pollVars, sshVars, taskVars>>

\* the report's reading of kill_result
KillOutcome(word) ==
    IF word = "TERMINATED" THEN "TERMINATED"
    ELSE IF word = "FORCE_KILLED" THEN "FORCE_KILLED"
    ELSE "UNEXPECTED"

\* kill_result = stdout.read(): the outcome goes into the report
TermReadKill ==
    /\ op = "terminate"
    /\ pc = "readkill"
    /\ result' = [result EXCEPT !.outcome = KillOutcome(out)]
    /\ pc' = "cleanup"
    /\ UNCHANGED <<hostVars, op, aTask, aPid, out, histVars>>
    /\ UNCHANGED <<prev, pollVars, sshVars, taskVars>>

\* rm -f of one path: the file is gone afterwards if it was absent or if
\* the connecting user may unlink it (ok)
Removed(present, ok) == ~present \/ ok

\* the report's cleanup lines: "Removed: log_file", "Removed: pid_file"
SaysRemoved(logGone, pidGone) == TRUE

\* last round trip: rm -f log_file pid_file 2>/dev/null; echo 'Cleanup
\* attempted'.  ok: the connecting user may unlink the task's files (both
\* lie in /tmp and were created by the user that launched the task).
TermCleanup(ok) ==
    /\ op = "terminate"
    /\ pc = "cleanup"
    /\ logFile' = [logFile EXCEPT ![aTask] = ~Removed(logFile[aTask], ok)]
    /\ pidFile' = [pidFile EXCEPT ![aTask] =
                      IF Removed(pidFile[aTask] # 0, ok) THEN 0 ELSE pidFile[aTask]]
    /\ result' = [result EXCEPT
                    !.cleanup = "Cleanup attempted",
                    !.logGone = Removed(logFile[aTask], ok),
                    !.pidGone = Removed(pidFile[aTask] # 0, ok),
                    !.onRecord = (pidFile[aTask] = aPid)]
    /\ pc' = "return"
    /\ UNCHANGED <<ptable, orphan, op, aTask, aPid, out, histVars>>
    /\ UNCHANGED <<prev, pollVars, sshVars, taskVars>>

\* the report gets its cleanup lines and is returned
TermReturn ==
    /\ op = "terminate"
    /\ pc = "return"
    /\ result' = [result EXCEPT
                    !.kind = "report", !.task = aTask, !.pid = aPid,
                    !.removed = SaysRemoved(result.logGone, result.pidGone)]
    /\ pc' = "done"
    /\ UNCHANGED <<hostVars, op, aTask, aPid, out, histVars>>
    /\ UNCHANGED <<prev, pollVars, sshVars, taskVars>>

(***************************************************************************)
(* One SSH operation from the client side: _execute_ssh_command (one-shot  *)
(* run), ssh_execute_background_command (launch), ssh_check_background_task*)
(* (status) and ssh_kill_background_task (terminate) share one skeleton:   *)
(* create the client, check that the key file exists, load the key, open   *)
(* the connection, execute the remote commands one after the other, and    *)
(* close the client in the finally block.  Spec above abstracts this       *)
(* skeleton into Connect and Raise; SpecSsh follows it step by step.       *)
(***************************************************************************)
SshOps == {"run", "launch", "status", "terminate"}

\* the from_private_key_file calls, in the order the code nests them
KeyOrder == <<"RSA", "Ed25519", "ECDSA", "DSS">>

Algorithms == {KeyOrder[i] : i \in 1..Len(KeyOrder)}

\* A key file written for algorithm a: its parser accepts it, the others
\* raise.
PlainKey(a) == [b \in Algorithms |-> IF b = a THEN "ok" ELSE "bad"]

\* A file no parser accepts: each parser either raises
\* PasswordRequiredException ("encrypted") or another exception ("bad").
\* Which parsers recognise an encrypted file depends on the file format.
UnreadableKeys == [Algorithms -> {"bad", "encrypted"}]

MissingKey == [exists |-> FALSE, parse |-> [b \in Algorithms |-> "bad"]]

KeyFiles ==
    {MissingKey}
        \cup {[exists |-> TRUE, parse |-> PlainKey(a)] : a \in Algorithms}
        \cup {[exists |-> TRUE, parse |-> f] : f \in UnreadableKeys}

\* XxxKey.from_private_key_file(SSH_KEY_FILE) without a passphrase; on a
\* missing file it raises FileNotFoundError
Parse(k, alg) == IF k.exists THEN k.parse[alg] ELSE "bad"

\* a key loader that tries the parsers in the reverse order
NextAlgorithmReversed(t) == KeyOrder[Len(KeyOrder) - Len(t)]

\* the parser the nested try blocks reach after the attempts in t failed
NextAlgorithm(t) == KeyOrder[Len(t) + 1]

\* a client that hands the missing file to the parsers
AfterExistsUnchecked(exists) == "key"

\* if not os.path.exists(SSH_KEY_FILE): return the not-found error
AfterExists(exists) == IF exists THEN "key" ELSE "key_not_found"

\* the operations whose RSA attempt has an
\* except PasswordRequiredException branch; status and terminate have none
HandlesPassphrase(o) == o \in {"run", "launch"}

\* what the nested try/except blocks do with the outcome of one parser
AfterParse(o, alg, outcome) ==
    IF outcome = "ok" THEN "loaded"
    ELSE IF alg = "RSA" /\ outcome = "encrypted" /\ HandlesPassphrase(o)
    THEN "passphrase"
    ELSE IF alg = KeyOrder[Len(KeyOrder)] THEN "load_error"
    ELSE "next"

\* the exec_command round trips of an operation: one command for the
\* one-shot run and for launch; probe, log tail and line count for status;
\* probe and cleanup, with the kill script between them when the probe
\* answered RUNNING, for terminate
RoundTrips(o) ==
    CASE o = "run" -> {1}
      [] o = "launch" -> {1}
      [] o = "status" -> {3}
      [] o = "terminate" -> {2, 3}

\* the tools of the server: the SSH operations, and the Vast API tools
\* ("vast"), which all go through get_vast_client()
Tools == SshOps \cup {"vast"}

\* a server whose tools all assign the module-level client
GlobalsWrittenByAll(tool) == {"_vast_client"}

\* the module-level variables a tool assigns: get_vast_client declares
\* global _vast_client; the SSH operations assign local variables only
GlobalsWritten(tool) == IF tool = "vast" THEN {"_vast_client"} ELSE {}

\* the module-level variables a tool reads
GlobalsRead(tool) ==
    IF tool = "vast" THEN {"_vast_client"} ELSE {"SSH_KEY_FILE", "logger"}

\* the module-level variables that change after the import of the module
MutableGlobals == UNION {GlobalsWritten(t) : t \in Tools}

\* _vast_client is set, after a tool that assigns the variables in w
Assigned(g, w) == IF "_vast_client" \in w THEN TRUE ELSE g

\* a client that leaves the session as it is when the operation returns
FinallyMissing(s) == s

\* finally: if client: client.close()
Finally(s) == "closed"

InitSsh ==
    /\ sOp = "none"
    /\ spc = "idle"
    /\ keyFile = MissingKey
    /\ keyChecked = "unchecked"
    /\ tried = <<>>
    /\ privateKey = "none"
    /\ session = "none"
    /\ opened = FALSE
    /\ rounds = 0
    /\ remote = "idle"
    /\ sResult = "none"
    /\ vastClient = FALSE
    /\ launchedHere = FALSE

\* the call: client = paramiko.SSHClient(); k is the key file of this call
SshStart(o, k, n) ==
    /\ spc = "idle"
    /\ n \in RoundTrips(o)
    /\ sOp' = o
    /\ spc' = "exists"
    /\ keyFile' = k
    /\ rounds' = n
    /\ session' = "created"
    /\ UNCHANGED <<keyChecked, tried, privateKey, opened, remote, sResult>>
    /\ UNCHANGED <<procVars, pollVars, lifeVars, taskVars>>

\* the key file disappears while the operation runs
KeyFileRemoved ==
    /\ spc \in {"exists", "key"}
    /\ keyFile.exists
    /\ keyFile' = [keyFile EXCEPT !.exists = FALSE]
    /\ UNCHANGED <<sOp, spc, keyChecked, tried, privateKey, session, opened,
                   rounds, remote, sResult>>
    /\ UNCHANGED <<procVars, pollVars, lifeVars, taskVars>>

\* the existence check of the key file
SshCheckKey ==
    /\ spc = "exists"
    /\ keyChecked' = IF keyFile.exists THEN "present" ELSE "missing"
    /\ IF AfterExists(keyFile.exists) = "key"
       THEN /\ spc' = "key"
            /\ UNCHANGED <<session, sResult>>
       ELSE /\ spc' = "done"
            /\ sResult' = "key_not_found"
            /\ session' = Finally(session)
    /\ UNCHANGED <<sOp, keyFile, tried, privateKey, opened, rounds, remote>>
    /\ UNCHANGED <<procVars, pollVars, lifeVars, taskVars>>

\* one from_private_key_file attempt and the except clause around it
SshTryKey ==
    /\ spc = "key"
    /\ LET alg == NextAlgorithm(tried)
           outcome == Parse(keyFile, alg)
           next == AfterParse(sOp, alg, outcome)
       IN  /\ tried' = Append(tried, [alg |-> alg, outcome |-> outcome])
           /\ CASE next = "loaded" ->
                     /\ privateKey' = alg
                     /\ spc' = "connect"
                     /\ UNCHANGED <<session, sResult>>
                [] next = "next" ->
                     UNCHANGED <<privateKey, spc, session, sResult>>
                [] OTHER ->
                     /\ spc' = "done"
                     /\ sResult' = next
                     /\ session' = Finally(session)
                     /\ UNCHANGED privateKey
    /\ UNCHANGED <<sOp, keyFile, keyChecked, opened, rounds, remote>>
    /\ UNCHANGED <<procVars, pollVars, lifeVars, taskVars>>

\* client.connect(..., timeout=30) succeeds
SshConnect ==
    /\ spc = "connect"
    /\ session' = "open"
    /\ opened' = TRUE
    /\ spc' = "exec"
    /\ UNCHANGED <<sOp, keyFile, keyChecked, tried, privateKey, rounds, remote,
                   sResult>>
    /\ UNCHANGED <<procVars, pollVars, lifeVars, taskVars>>

\* client.connect raises: refused, authentication failure, or no answer
\* within the 30 seconds of its timeout; the except clauses return the error
SshConnectFails ==
    /\ spc = "connect"
    /\ spc' = "done"
    /\ sResult' = "raised"
    /\ session' = Finally(session)
    /\ UNCHANGED <<sOp, keyFile, keyChecked, tried, privateKey, opened, rounds,
                   remote>>
    /\ UNCHANGED <<procVars, pollVars, lifeVars, taskVars>>

\* stdin, stdout, stderr = client.exec_command(cmd): the command is sent
SshExec ==
    /\ spc = "exec"
    /\ remote' = "running"
    /\ spc' = "read"
    /\ UNCHANGED <<sOp, keyFile, keyChecked, tried, privateKey, session, opened,
                   rounds, sResult>>
    /\ UNCHANGED <<procVars, pollVars, lifeVars, taskVars>>

\* the remote side of the command in flight: it ends and closes its output
\* ("answered"), the connection breaks ("lost"), or nothing more comes and
\* nothing breaks ("stalled": the command never ends, or the host went
\* silent)
RemoteEnds(r) ==
    /\ spc = "read"
    /\ remote = "running"
    /\ remote' = r
    /\ UNCHANGED <<sOp, spc, keyFile, keyChecked, tried, privateKey, session,
                   opened, rounds, sResult>>
    /\ UNCHANGED <<procVars, pollVars, lifeVars, taskVars>>

\* stdout.read(), stderr.read(), recv_exit_status() return; the next command
\* follows, or the operation returns its text through the finally block
SshRead ==
    /\ spc = "read"
    /\ remote = "answered"
    /\ remote' = "idle"
    /\ rounds' = rounds - 1
    /\ IF rounds > 1
       THEN /\ spc' = "exec"
            /\ UNCHANGED <<session, sResult>>
       ELSE /\ spc' = "done"
            /\ sResult' = "returned"
            /\ session' = Finally(session)
    /\ UNCHANGED <<sOp, keyFile, keyChecked, tried, privateKey, opened>>
    /\ UNCHANGED <<procVars, pollVars, lifeVars, taskVars>>

\* the read raises because the connection broke; the except clauses return
\* the error
SshExecRaises ==
    /\ spc = "read"
    /\ remote = "lost"
    /\ remote' = "idle"
    /\ spc' = "done"
    /\ sResult' = "raised"
    /\ session' = Finally(session)
    /\ UNCHANGED <<sOp, keyFile, keyChecked, tried, privateKey, opened, rounds>>
    /\ UNCHANGED <<procVars, pollVars, lifeVars, taskVars>>

\* the caller has the result; the next operation starts from scratch
SshReturn ==
    /\ spc = "done"
    /\ sOp' = "none"
    /\ spc' = "idle"
    /\ keyFile' = MissingKey
    /\ keyChecked' = "unchecked"
    /\ tried' = <<>>
    /\ privateKey' = "none"
    /\ session' = "none"
    /\ opened' = FALSE
    /\ rounds' = 0
    /\ remote' = "idle"
    /\ sResult' = "none"
    /\ vastClient' = Assigned(vastClient, GlobalsWritten(sOp))
    /\ launchedHere' = (launchedHere \/ sOp = "launch")
    /\ UNCHANGED <<pollVars, lifeVars, taskVars>>

\* a Vast API tool served by the same process calls get_vast_client()
GetVastClient ==
    /\ spc = "idle"
    /\ ~vastClient
    /\ vastClient' = Assigned(vastClient, GlobalsWritten("vast"))
    /\ UNCHANGED <<sOp, spc, keyFile, keyChecked, tried, privateKey, session,
                   opened, rounds, remote, sResult, launchedHere>>
    /\ UNCHANGED <<pollVars, lifeVars, taskVars>>

\* the steps of the operation itself
SshClientNext ==
    \/ SshCheckKey
    \/ SshTryKey
    \/ SshConnect
    \/ SshConnectFails
    \/ SshExec
    \/ SshRead
    \/ SshExecRaises

SshNext ==
    \/ \E o \in SshOps, k \in KeyFiles : \E n \in RoundTrips(o) : SshStart(o, k, n)
    \/ KeyFileRemoved
    \/ SshCheckKey
    \/ SshTryKey
    \/ SshConnect
    \/ SshConnectFails
    \/ SshExec
    \/ \E r \in {"answered", "stalled", "lost"} : RemoteEnds(r)
    \/ SshRead
    \/ SshExecRaises
    \/ SshReturn
    \/ GetVastClient

(***************************************************************************)
(* Task identifiers and artifact paths (SpecTask).  Launches may run       *)
(* concurrently; status and terminate receive a task id that a launch has  *)
(* handed out.  Strings are sequences of characters, so that the f-strings *)
(* of the code are concatenations.                                         *)
(***************************************************************************)
Launches == 1..MaxLaunch

\* the task_name argument: absent (None), empty, or a name
NoName == [given |-> FALSE, text |-> <<>>]

TaskNames ==
    {NoName}
        \cup {[given |-> TRUE, text |-> t] : t \in {<<>>, <<"j">>, <<"j", "_", "0">>}}

\* str(uuid.uuid4())[:8]: a random string of fixed length over the hex digits
UuidPrefixes == {<<ToString(d)>> : d \in 0..(MaxUuid - 1)}

\* if task_name:
Truthy(name) == name.given /\ name.text # <<>>

\* a task id that is the task_name alone when one is given
MakeTaskIdNameOnly(name, u) == IF Truthy(name) THEN name.text ELSE u

\* task_id = uuid prefix, or f"{task_name}_{task_id}"
MakeTaskId(name, u) == IF Truthy(name) THEN name.text \o <<"_">> \o u ELSE u

\* launch: log_file and pid_file
LaunchLogFile(id) == <<"/tmp/ssh_task_">> \o id \o <<".log">>

LaunchPidFile(id) == <<"/tmp/ssh_task_">> \o id \o <<".pid">>

\* status: log_file and pid_file
CheckLogFile(id) == <<"/tmp/ssh_task_">> \o id \o <<".log">>

CheckPidFile(id) == <<"/tmp/ssh_task_">> \o id \o <<".pid">>

\* terminate: log_file, and a pid_file computed with the wrong extension
KillPidFileAsLog(id) == <<"/tmp/ssh_task_">> \o id \o <<".log">>

\* terminate: log_file and pid_file
KillLogFile(id) == <<"/tmp/ssh_task_">> \o id \o <<".log">>

KillPidFile(id) == <<"/tmp/ssh_task_">> \o id \o <<".pid">>

\* the remote file at path exists
Exists(fs, path) == \E f \in fs : f.path = path

\* the remote files without those at the given paths
Without(fs, paths) == {f \in fs : f.path \notin paths}

NoCall == [pc |-> "idle", name |-> NoName, uuid |-> <<>>]

NoLook ==
    [op |-> "none", pc |-> "idle", id |-> <<>>, log |-> <<>>,
     pid |-> <<>>, logFound |-> FALSE, pidFound |-> FALSE]

\* task_id, log_file and pid_file of launch i, once it has generated them
IdOf(i) == MakeTaskId(calls[i].name, calls[i].uuid)

LogOf(i) == LaunchLogFile(IdOf(i))

PidOf(i) == LaunchPidFile(IdOf(i))

Named(i) == calls[i].pc # "idle"

\* launch i has read the pid file and returned its task id to the caller
Returned(i) == calls[i].pc = "pidded"

InitTask ==
    /\ calls = [i \in Launches |-> NoCall]
    /\ rfiles = {}
    /\ look = NoLook

\* launch i generates its task_id and its two paths
GenerateId(i, n, u) ==
    /\ look.pc = "idle"
    /\ calls[i].pc = "idle"
    /\ \A j \in Launches : j < i => Named(j)
    /\ calls' = [calls EXCEPT ![i] = [pc |-> "named", name |-> n, uuid |-> u]]
    /\ UNCHANGED <<rfiles, look>>
    /\ UNCHANGED <<pollVars, lifeVars, sshVars>>

\* the remote shell of launch i opens the redirection "> log_file"
RemoteCreateLog(i) ==
    /\ look.pc = "idle"
    /\ calls[i].pc = "named"
    /\ calls' = [calls EXCEPT ![i].pc = "logged"]
    /\ rfiles' = rfiles \cup {[path |-> LogOf(i), by |-> i]}
    /\ UNCHANGED look
    /\ UNCHANGED <<pollVars, lifeVars, sshVars>>

\* the wrapper of launch i runs "echo $$ > pid_file"
RemoteWritePid(i) ==
    /\ look.pc = "idle"
    /\ calls[i].pc = "logged"
    /\ calls' = [calls EXCEPT ![i].pc = "pidded"]
    /\ rfiles' = rfiles \cup {[path |-> PidOf(i), by |-> i]}
    /\ UNCHANGED look
    /\ UNCHANGED <<pollVars, lifeVars, sshVars>>

\* status on the task id that launch i returned: it computes the two paths and looks
\* at the files there
CheckTask(i) ==
    /\ look.pc = "idle"
    /\ Returned(i)
    /\ LET id == IdOf(i) IN
       look' = [op |-> "status", pc |-> "done", id |-> id,
                log |-> CheckLogFile(id), pid |-> CheckPidFile(id),
                logFound |-> Exists(rfiles, CheckLogFile(id)),
                pidFound |-> Exists(rfiles, CheckPidFile(id))]
    /\ UNCHANGED <<calls, rfiles>>
    /\ UNCHANGED <<pollVars, lifeVars, sshVars>>

\* terminate on the task id that launch i returned: it computes the two paths and
\* removes the files there
KillTask(i) ==
    /\ look.pc = "idle"
    /\ Returned(i)
    /\ LET id == IdOf(i) IN
       /\ look' = [op |-> "terminate", pc |-> "done", id |-> id,
                   log |-> KillLogFile(id), pid |-> KillPidFile(id),
                   logFound |-> Exists(rfiles, KillLogFile(id)),
                   pidFound |-> Exists(rfiles, KillPidFile(id))]
       /\ rfiles' = Without(rfiles, {KillLogFile(id), KillPidFile(id)})
    /\ UNCHANGED calls
    /\ UNCHANGED <<pollVars, lifeVars, sshVars>>

\* status or terminate returns
LookReturn ==
    /\ look.pc = "done"
    /\ look' = NoLook
    /\ UNCHANGED <<calls, rfiles>>
    /\ UNCHANGED <<pollVars, lifeVars, sshVars>>

TaskNext ==
    \/ \E i \in Launches, n \in TaskNames, u \in UuidPrefixes : GenerateId(i, n, u)
    \/ \E i \in Launches : RemoteCreateLog(i)
    \/ \E i \in Launches : RemoteWritePid(i)
    \/ \E i \in Launches : CheckTask(i)
    \/ \E i \in Launches : KillTask(i)
    \/ LookReturn

Init == InitWait /\ InitLife /\ InitSsh /\ InitTask

LifeNext ==
    \/ Connect
    \/ Raise
    \/ Return
    \/ \E t \in TaskIds : LaunchStart(t)
    \/ \E p \in Pids : LaunchSpawn(p)
    \/ LaunchSpawnFails
    \/ \E e \in BOOLEAN, x \in ExitStatuses : LaunchReadPid(e, x)
    \/ LaunchReturn
    \/ \E p \in Pids, t \in TaskIds : StatusStart(p, t)
    \/ StatusProbe
    \/ StatusTail
    \/ StatusCount
    \/ \E p \in Pids, t \in TaskIds : TermStart(p, t)
    \/ TermProbe
    \/ \E ign \in BOOLEAN : KillTerm(ign)
    \/ KillGrace
    \/ KillReprobe
    \/ KillForce
    \/ TermReadKill
    \/ \E ok \in BOOLEAN : TermCleanup(ok)
    \/ TermReturn

Next == HostNext \/ LifeNext

Spec == Init /\ [][Next]_vars

\* launch and terminate calls one after the other, and terminate called
\* again on the handle it has just reported killed
AgainNext ==
    \/ HostNext
    \/ Connect
    \/ Raise
    \/ Return
    \/ \E t \in TaskIds : LaunchStart(t)
    \/ \E p \in Pids : LaunchSpawn(p)
    \/ LaunchSpawnFails
    \/ \E e \in BOOLEAN, x \in ExitStatuses : LaunchReadPid(e, x)
    \/ LaunchReturn
    \/ \E p \in Pids, t \in TaskIds : TermStart(p, t)
    \/ TermStartAgain
    \/ TermProbe
    \/ \E ign \in BOOLEAN : KillTerm(ign)
    \/ KillGrace
    \/ KillReprobe
    \/ KillForce
    \/ TermReadKill
    \/ \E ok \in BOOLEAN : TermCleanup(ok)
    \/ TermReturn

SpecAgain == Init /\ [][AgainNext]_vars

SpecPoll == Init /\ [][WaitNext]_vars

SpecSsh == Init /\ [][SshNext]_vars

SpecTask == Init /\ [][TaskNext]_vars

\* every step of the call is eventually taken: the process is not suspended
\* forever and a status query is bounded by the request timeout
SpecPollFair == SpecPoll /\ WF_vars(WaitNext)

(***************************************************************************)
(* Properties of terminate and status                                      *)
(***************************************************************************)
Outcomes == {"ALREADY_STOPPED", "TERMINATED", "FORCE_KILLED"}

\* terminate has returned its report
Reported == op = "terminate" /\ pc = "done" /\ result.kind = "report"

\* C1: when the first probe of terminate finds no process under the
\* process id, the call sends no signal at any later point (neither the
\* graceful nor the forceful one), waits no grace period, and the report it
\* returns says ALREADY_STOPPED.
C1_StoppedNoSignal ==
    (op = "terminate" /\ saw.kind = "free") =>
        /\ sigs = <<>>
        /\ graces = 0
        /\ pc \notin {"kill", "grace", "reprobe", "force", "readkill"}
        /\ Reported => result.outcome = "ALREADY_STOPPED"

\* the probe failed, and the process id was taken again before the return
C1_Witness ==
    /\ Reported
    /\ saw.kind = "free"
    /\ Alive(ptable, aPid)
    /\ result.outcome = "ALREADY_STOPPED"

C3_ReprobeDecides ==
    (Reported /\ saw.kind \notin {"none", "free"}) =>
        /\ resaw.kind # "none"
        /\ result.outcome \in {"FORCE_KILLED", "TERMINATED"}
        /\ result.outcome = "FORCE_KILLED" <=> resaw.kind # "free"
        /\ result.outcome = "TERMINATED" <=> resaw.kind = "free"
        /\ (\E i \in 1..Len(sigs) : sigs[i].sig = "KILL") <=> resaw.kind # "free"

\* the process ignored the graceful signal, ended by itself during the
\* grace period, and the re-probe made the outcome TERMINATED
C3_Witness ==
    /\ Reported
    /\ saw.kind = "wrapper"
    /\ sigs[1].ignored
    /\ resaw.kind = "free"
    /\ result.outcome = "TERMINATED"

\* C4: every report of terminate, whatever its outcome, comes after the
\* removal of both files was attempted, and a removal that fails on the
\* host does not make the call fail: the report with the outcome is
\* returned all the same.
C4_CleanupBestEffort ==
    /\ Reported =>
          /\ result.outcome \in Outcomes
          /\ result.cleanup = "Cleanup attempted"
    /\ (op = "terminate" /\ pc = "done" /\ result.cleanup # "") =>
          result.kind = "report"

\* nothing ran under the process id, the files could not be removed, and
\* the report is returned
C4_Witness ==
    /\ Reported
    /\ result.outcome = "ALREADY_STOPPED"
    /\ ~result.logGone
    /\ ~result.pidGone

\* C5: the report of terminate says the files were removed only when both
\* are gone from the host, and says so whenever they are.
C5_CleanupReported ==
    Reported => (result.removed <=> (result.logGone /\ result.pidGone))

\* status has returned its report for the handle that launch returned
StatusOnHandle ==
    /\ op = "status"
    /\ pc = "done"
    /\ result.kind = "status"
    /\ handle # NoHandle
    /\ handle = [task |-> aTask, pid |-> aPid]

\* the wrapper that launch started for the task was alive at the probe: the
\* wrapped command had not exited
CommandRunningAtProbe == saw.kind = "wrapper" /\ saw.task = aTask

\* C6 as stated: a status call on the returned handle reports RUNNING while
\* the wrapped command has not exited and STOPPED once it has.
C6_LivenessConvergence ==
    StatusOnHandle =>
        /\ CommandRunningAtProbe => result.state = "RUNNING"
        /\ ~CommandRunningAtProbe => result.state = "STOPPED"

\* C6 amended: a status call on the returned handle reports RUNNING when
\* its probe runs while the wrapper of the task is alive, and STOPPED when
\* its probe finds no process under the handle's process id; RUNNING is
\* reported exactly when some process of the connecting user holds the id.
C6_ProbeDecidesState ==
    StatusOnHandle =>
        /\ CommandRunningAtProbe => result.state = "RUNNING"
        /\ saw.kind = "free" => result.state = "STOPPED"
        /\ result.state = "RUNNING" <=> saw.kind # "free"
        /\ result.state \in {"RUNNING", "STOPPED"}

\* the wrapped command has exited and status says STOPPED
C6_Witness ==
    /\ StatusOnHandle
    /\ saw.kind = "free"
    /\ result.state = "STOPPED"
    /\ ~Alive(ptable, aPid)

(***************************************************************************)
(* Properties of wait_for_instance_ready                                   *)
(***************************************************************************)
Reports == {"ready", "failed_terminal", "timed_out"}

\* C7: wait_ready never fails.  Whatever the status source answers
\* (statuses, responses without a status, exceptions) and whatever the
\* timeout, a started call reaches its return, and what it returns is one
\* of ready, failed_terminal and timed_out; no exception leaves the call.
C7_WaitNeverFails ==
    /\ [](wpc = "done" => wResult \in Reports)
    /\ ((wpc # "idle") ~> (wpc = "done"))

\* a call that met an exception and a response without status, and returned
C7_Witness ==
    /\ wpc = "done"
    /\ wResult \in Reports
    /\ \E i, j \in 1..Len(wResponses) :
          wResponses[i] = "error" /\ wResponses[j] = "missing"

\* C8: with timeout = 0 the call returns timed_out and issues at most one
\* status query (the code issues none).
C8_ZeroTimeout ==
    (wpc # "idle" /\ wTimeout = 0) =>
        /\ wQueries <= 1
        /\ wpc = "done" => wResult = "timed_out"

C8_Witness == wpc = "done" /\ wTimeout = 0 /\ wResult = "timed_out"

\* C9: a poll that answers "running" ends the call with ready on that very
\* poll: if it is the k-th poll, k queries were issued and k-1 intervals
\* slept (so at least (k-1) * interval seconds elapsed), and ready is never
\* returned unless the last query answered "running".
C9_ReadyOnFirstRunning ==
    /\ \A k \in 1..Len(wResponses) :
          wResponses[k] = "running" =>
              /\ k = wQueries
              /\ wpc = "done"
              /\ wResult = "ready"
              /\ wSleeps = k - 1
              /\ wReadyAt >= (k - 1) * SleepInterval
    /\ wResult = "ready" =>
          /\ wResponses # <<>>
          /\ wResponses[Len(wResponses)] = "running"

\* ready on the third poll, after two polls that were not terminal
C9_Witness ==
    /\ wResult = "ready"
    /\ wQueries = 3
    /\ wSleeps = 2
    /\ \A i \in 1..2 : wResponses[i] \in {"loading", "missing"}

\* C10: a poll that answers "failed" or "exited" ends the call with
\* failed_terminal carrying that status; no query and no sleep follows it.
C10_TerminalStatusReturns ==
    \A k \in 1..Len(wResponses) :
        wResponses[k] \in {"failed", "exited"} =>
            /\ k = wQueries
            /\ wpc = "done"
            /\ wResult = "failed_terminal"
            /\ wRawStatus = wResponses[k]
            /\ wSleeps = k - 1

C10_Witness ==
    /\ wpc = "done"
    /\ wResult = "failed_terminal"
    /\ wRawStatus = "exited"
    /\ wQueries = 2

\* C11: a status query that raises does not end the wait.  After the k-th
\* query raised, the call is about to sleep, or has slept exactly one
\* interval since and is back at the loop test or at the next query (only
\* while the deadline has not passed), or has returned timed_out from the
\* loop test; it never returns from the raising query itself.  A later
\* query that answers "running" still yields ready.
C11_ErrorKeepsPolling ==
    /\ \A k \in 1..Len(wResponses) :
          wResponses[k] = "error" =>
              /\ k < wQueries => wSleeps >= k
              /\ k = wQueries =>
                    \/ wpc = "sleep" /\ wCaught /\ wSleeps = k - 1 /\ wResult = "none"
                    \/ wpc = "loop" /\ wSleeps = k /\ wResult = "none"
                    \/ /\ wpc = "query"
                       /\ wSleeps = k
                       /\ wResult = "none"
                       /\ wElapsed < wTimeout
                    \/ /\ wpc = "done"
                       /\ wSleeps = k
                       /\ wResult = "timed_out"
                       /\ wElapsed >= wTimeout
    /\ (/\ wResponses # <<>>
        /\ wResponses[Len(wResponses)] = "running"
        /\ \E i \in 1..Len(wResponses) : wResponses[i] = "error")
           => wpc = "done" /\ wResult = "ready"

\* ready on the third query, after two queries that raised
C11_Witness ==
    /\ wpc = "done"
    /\ wResult = "ready"
    /\ wResponses = <<"error", "error", "running">>
    /\ wSleeps = 2

(***************************************************************************)
(* Key loading, sessions and blocking (SpecSsh)                            *)
(***************************************************************************)
\* C12: whichever parser meets the passphrase condition, and whichever
\* operation loads the key, the load ends there with the passphrase error:
\* the parser that raised it is the last one tried and the operation has
\* returned the passphrase error.
C12_PassphraseDistinct ==
    \A i \in 1..Len(tried) :
        tried[i].outcome = "encrypted" =>
            /\ i = Len(tried)
            /\ spc = "done"
            /\ sResult = "passphrase"

\* C13: the parsers are tried in the order RSA, Ed25519, ECDSA, DSS against
\* the same file; a parser is attempted only after every earlier one
\* failed; the credential used for the connection is that of the first
\* parser that accepted the file; the load error is returned only after
\* all four failed.
C13_FixedProbeOrder ==
    /\ Len(tried) <= Len(KeyOrder)
    /\ \A i \in 1..Len(tried) :
          /\ tried[i].alg = KeyOrder[i]
          /\ i < Len(tried) => tried[i].outcome # "ok"
    /\ privateKey # "none" =>
          /\ tried # <<>>
          /\ tried[Len(tried)] = [alg |-> privateKey, outcome |-> "ok"]
    /\ spc \in {"connect", "exec", "read"} => privateKey # "none"
    /\ sResult = "load_error" =>
          /\ Len(tried) = Len(KeyOrder)
          /\ \A i \in 1..Len(tried) : tried[i].outcome # "ok"
          /\ privateKey = "none"

\* an ECDSA key: loaded at the third attempt, after RSA and Ed25519 failed
C13_Witness ==
    /\ privateKey = "ECDSA"
    /\ Len(tried) = 3
    /\ opened

\* C14: when the existence check finds no key file, the operation returns
\* the key-file-not-found error at once: no parser has been attempted and
\* no connection has been opened.  No parser runs and no connection is
\* opened before the check has found the file.
C14_MissingKeyFailsFirst ==
    /\ keyChecked = "missing" =>
          /\ spc = "done"
          /\ sResult = "key_not_found"
          /\ tried = <<>>
          /\ privateKey = "none"
          /\ ~opened
          /\ session = "closed"
    /\ (tried # <<>> \/ opened \/ session = "open") => keyChecked = "present"
    /\ sResult = "key_not_found" => keyChecked = "missing"

\* terminate called while the key file is missing
C14_Witness ==
    /\ sOp = "terminate"
    /\ spc = "done"
    /\ ~keyFile.exists
    /\ keyChecked = "missing"
    /\ sResult = "key_not_found"

(***************************************************************************)
(* Launch results (Spec)                                                   *)
(***************************************************************************)
\* launch has returned after its snippet ran and its output was read
LaunchRan == op = "launch" /\ pc = "done" /\ result.ran

LaunchFailures == {"error", "launch_failure"}

\* C15 as stated: once the snippet ran, launch returns a failure and no
\* handle exactly when the exit status is non-zero or stdout is not an
\* integer, and in every other case a handle whose process id is the
\* integer printed.
C15_FailureOnlyOnExitOrParse ==
    LaunchRan =>
        IF result.exit # 0 \/ ParseInt(out) = 0
        THEN result.kind \in LaunchFailures /\ handle = NoHandle
        ELSE /\ result.kind = "handle"
             /\ result.pid = ParseInt(out)
             /\ handle = [task |-> aTask, pid |-> ParseInt(out)]

\* C15, amended: launch returns a handle, with the integer printed as
\* process id, exactly when the snippet ran with exit status 0, wrote
\* nothing to stderr and printed an integer; in every other case (non-zero
\* exit status, anything on stderr, unparseable stdout, an exception before
\* or during the round trip) it returns a failure and no handle.
C15_FailureOnStderrToo ==
    (op = "launch" /\ pc = "done") =>
        IF result.ran /\ ~result.stderr /\ result.exit = 0 /\ ParseInt(out) # 0
        THEN /\ result.kind = "handle"
             /\ result.pid = ParseInt(out)
             /\ handle = [task |-> aTask, pid |-> ParseInt(out)]
        ELSE /\ result.kind \in LaunchFailures
             /\ result.pid = 0
             /\ handle = NoHandle

\* the snippet exits with 0 and prints the process id, but the remote
\* shell wrote to stderr: launch reports a failure
C15_Witness ==
    /\ LaunchRan
    /\ result.stderr
    /\ result.exit = 0
    /\ ParseInt(out) # 0
    /\ result.kind = "error"
    /\ handle = NoHandle

(***************************************************************************)
(* Sessions and blocking (SpecSsh)                                         *)
(***************************************************************************)
\* C16: when an operation returns, its client is closed, whatever the exit
\* path: the normal return, the early returns of the key check and of the
\* key loader, a failed connect, an exception while a remote command
\* executes.  No session is open outside an operation.
C16_SessionClosedOnReturn ==
    /\ spc = "done" => session = "closed"
    /\ spc = "idle" => session # "open"
    /\ session = "open" => spc \in {"exec", "read"}

\* the connection broke while the second command of status executed
C16_Witness ==
    /\ sOp = "status"
    /\ spc = "done"
    /\ opened
    /\ sResult = "raised"
    /\ rounds = 2
    /\ session = "closed"

\* the operation is between its call and its return
InFlight == spc \notin {"idle", "done"}

\* C17: no operation can block forever.  Whenever the remote side will
\* produce nothing more for the command in flight, the operation still has
\* a step to take (a timeout that ends the wait).
C17_NeverBlocksForever ==
    (InFlight /\ remote = "stalled") => ENABLED SshClientNext

(***************************************************************************)
(* Task identifiers and artifact paths (SpecTask)                          *)
(***************************************************************************)
\* the two artifact paths of launch i
PathsOf(i) == {LogOf(i), PidOf(i)}

\* the remote paths launch i has written
WrittenBy(i) == {f.path : f \in {g \in rfiles : g.by = i}}

\* the task_name as the code uses it: an absent and an empty name are alike
NamePart(i) == IF Truthy(calls[i].name) THEN calls[i].name.text ELSE <<>>

C19_SamePathsFromTaskId ==
    look.pc = "done" =>
        \A i \in Launches :
            (Named(i) /\ IdOf(i) = look.id) =>
                /\ look.log = LogOf(i)
                /\ look.pid = PidOf(i)
                /\ look.op = "status" =>
                      /\ look.logFound = Exists(rfiles, LogOf(i))
                      /\ look.pidFound = Exists(rfiles, PidOf(i))
                /\ look.op = "terminate" =>
                      /\ ~Exists(rfiles, LogOf(i))
                      /\ ~Exists(rfiles, PidOf(i))

\* terminate on a named task whose two files existed
C19_Witness ==
    /\ look.pc = "done"
    /\ look.op = "terminate"
    /\ look.logFound
    /\ look.pidFound
    /\ \E i \in Launches :
          Named(i) /\ Truthy(calls[i].name) /\ IdOf(i) = look.id

(***************************************************************************)
(* Process-local state (SpecSsh)                                           *)
(***************************************************************************)
TaskOps == {"launch", "status", "terminate"}

StatusReported == op = "status" /\ pc = "done" /\ result.kind = "status"

\* C21 as stated: when the log file does not exist, status returns its
\* report with an empty log tail and a line count of 0.
C21_MissingLogEmptyTail ==
    (StatusReported /\ ~logFile[aTask]) =>
        result.tail = "" /\ result.lines = "0"

\* C21, amended: when the log file does not exist, status returns its
\* report (the missing file is no error); the log section of the report
\* holds the line "Log file not found" and the line count is 0.
C21_MissingLogPlaceholder ==
    /\ (StatusReported /\ ~logFile[aTask]) =>
          result.tail = "Log file not found" /\ result.lines = "0"
    /\ (StatusReported /\ logFile[aTask]) =>
          result.tail = "log" /\ result.lines = "n"

\* status on a task whose log file is missing while its process id is held
C21_Witness ==
    /\ StatusReported
    /\ ~logFile[aTask]
    /\ result.state = "RUNNING"
    /\ result.lines = "0"

\* terminate was called with the process id that the wrapper of the task
\* recorded in the task's pid file, which is the id launch returns
TerminateOnLaunched ==
    /\ op = "terminate"
    /\ pidFile[aTask] # 0
    /\ aPid = pidFile[aTask]

\* the wrapper that launch started for the task is still in the process table
WrapperLives(t) ==
    \E p \in Pids : ptable[p].kind = "wrapper" /\ ptable[p].task = t

\* C22 as stated: every signal terminate sends on a launched handle reaches
\* the process launch started for that task_id or no process at all, never
\* a different process.
C22_SignalsOnlyToLaunched ==
    TerminateOnLaunched =>
        \A k \in 1..Len(sigs) :
            \/ sigs[k].kind = "free"
            \/ sigs[k].kind = "wrapper" /\ sigs[k].task = aTask

\* C22 amended: every signal terminate sends on a launched handle reaches
\* the process launch started for that task_id while that process exists;
\* once it has exited the signal reaches no process, or whichever process
\* of the connecting user has since been given the same process id.
C22_SignalsToHolderOfPid ==
    TerminateOnLaunched =>
        \A k \in 1..Len(sigs) :
            \/ sigs[k].kind = "free"
            \/ sigs[k].kind = "wrapper" /\ sigs[k].task = aTask
            \/ ~WrapperLives(aTask)

\* terminate on a launched handle signalled the launched wrapper itself
C22_Witness ==
    /\ TerminateOnLaunched
    /\ Len(sigs) >= 1
    /\ sigs[1].kind = "wrapper"
    /\ sigs[1].task = aTask

\* the call has returned a failure: an error text or a launch failure
Failed == pc = "done" /\ result.kind \in {"error", "launch_failure"}

\* C23: every failure result of launch, status or terminate names the remote
\* host and the remote port and, for status and terminate, the task
\* identifier.
C23_FailuresNameTarget ==
    Failed =>
        /\ {"host", "port"} \subseteq ReportFields(result.kind)
        /\ op \in {"status", "terminate"} => "task" \in ReportFields(result.kind)

(***************************************************************************)
(* Round trips of terminate (SpecSsh)                                      *)
(***************************************************************************)
\* C24: terminate issues exactly one remote command round trip per call
\* after connecting: whenever it sends a command or reads its answer, that
\* command is the only one the call has left to make, so nothing can run
\* on the host between its probe and its signals.
C24_OneRoundTrip ==
    (sOp = "terminate" /\ spc \in {"exec", "read"}) => rounds = 1

(***************************************************************************)
(* The launch snippet and what outlives a call (Spec)                      *)
(***************************************************************************)
\* the wrapper of task t runs the user command under process id p
RunsCommand(p, t) ==
    /\ ptable[p].kind = "wrapper"
    /\ ptable[p].task = t
    /\ ptable[p].stage = "running"

\* C25: in the launch snippet the detached process writes its own process
\* id to pid_path before the user command starts, so the user command never
\* runs without pid_path holding that id, and the process id in the handle
\* launch returns is the content of pid_path.
C25_PidWrittenBeforeCommand ==
    op = "launch" =>
        /\ \A p \in Pids : RunsCommand(p, aTask) => pidFile[aTask] = p
        /\ (pc = "done" /\ result.kind = "handle") =>
               result.pid = pidFile[aTask]

\* C26: whenever launch returns a failure, no detached process started by
\* that launch is left running on the remote host.
C26_FailedLaunchLeavesNothing ==
    (op = "launch" /\ Failed) => ~WrapperLives(aTask)

\* terminate has returned a report saying that it killed the process; the
\* process id it was given is the one on record in the task's pid file when
\* the cleanup ran (result.onRecord), and the process its probe met was the
\* wrapper launch started for the task
KilledLaunched ==
    /\ op = "terminate"
    /\ pc = "done"
    /\ result.kind = "report"
    /\ result.outcome \in {"TERMINATED", "FORCE_KILLED"}
    /\ result.onRecord
    /\ saw.kind = "wrapper"
    /\ saw.task = aTask

\* C27: after terminate returns TERMINATED or FORCE_KILLED for a handle
\* produced by launch, nothing that launch started is still running:
\* neither the wrapper process nor the user command it spawned.
C27_NothingSurvivesKill ==
    KilledLaunched => ~WrapperLives(aTask) /\ ~orphan[aTask]

(***************************************************************************)
(* terminate after terminate (SpecAgain)                                   *)
(***************************************************************************)
\* this terminate is called with the handle whose process the call just
\* before it reported to have killed
SecondTerminate ==
    /\ op = "terminate"
    /\ prev # NoHandle
    /\ prev = [task |-> aTask, pid |-> aPid]

C29_StatusReadOnly ==
    [][((op = "status" \/ op' = "status") /\ callVars' # callVars) =>
          (hostVars' = hostVars /\ sigs' = <<>>)]_vars

\* status has reported on a live wrapper, which is still there with its
\* files
C29_Witness ==
    /\ StatusReported
    /\ saw.kind = "wrapper"
    /\ saw.task = aTask
    /\ result.state = "RUNNING"
    /\ WrapperLives(aTask)
    /\ logFile[aTask]
    /\ pidFile[aTask] = aPid

(***************************************************************************)
(* The deadline of wait_for_instance_ready (SpecPoll)                      *)
(***************************************************************************)
\* the least number of intervals that cover the timeout
Ceiling(a, b) == (a + b - 1) \div b

\* every status query so far took no time: the elapsed time is the sleeps'
ZeroTimeQueries == wElapsed = wSleeps * SleepInterval

\* C30: wait_ready never starts a status query once the elapsed time has
\* reached the timeout; it returns timed_out only when the elapsed time has
\* reached the timeout and no query has answered "running", "failed" or
\* "exited"; and when the queries take no time, their number is at most
\* the ceiling of timeout / interval.
C30_DeadlineBoundsQueries ==
    /\ wpc = "query" => wElapsed < wTimeout
    /\ wResult = "timed_out" =>
          /\ wElapsed >= wTimeout
          /\ \A k \in 1..Len(wResponses) :
                wResponses[k] \notin {"running", "failed", "exited"}
    /\ ZeroTimeQueries => wQueries <= Ceiling(wTimeout, SleepInterval)

\* a timeout of 11 s reached after three queries that took no time
C30_Witness ==
    /\ wpc = "done"
    /\ wResult = "timed_out"
    /\ wTimeout = 11
    /\ ZeroTimeQueries
    /\ wQueries = 3
    /\ wElapsed = 15

====
